---- MODULE Spec2Model ----
(***************************************************************************)
(* MotorcycleModelViewer: the gesture-to-transform controller, the render  *)
(* loop and the two model-load routines (the inline load of                *)
(* onContextCreate and loadMotorcycleModel) of                             *)
(* src/components/MotorcycleModelViewer.tsx, as one state machine.         *)
(*                                                                         *)
(* JavaScript numbers are modelled as exact rationals in lowest terms,     *)
(* together with NaN, +Infinity and undefined, so that 0/0, x/0 and        *)
(* Math.min/Math.max on NaN behave as they do in the program.  Angles are  *)
(* in radians; PI is the rational 355/113.  Floating-point         *)
(* rounding is not modelled.                                               *)
(***************************************************************************)
EXTENDS Integers, Sequences, FiniteSets, TLC

(* ------------------------------ numbers ------------------------------- *)

Abs(i) == IF i < 0 THEN -i ELSE i

RECURSIVE GCD(_, _)
GCD(a, b) == IF b = 0 THEN a ELSE GCD(b, a % b)

\* the rational n/d in lowest terms with a positive denominator (d # 0)
Rat(n, d) ==
    LET g == GCD(Abs(n), Abs(d))
        s == IF d < 0 THEN -1 ELSE 1
    IN  [k |-> "num", n |-> (s * n) \div g, d |-> (s * d) \div g]

NaN == [k |-> "nan", n |-> 0, d |-> 1]

Infinity == [k |-> "inf", n |-> 1, d |-> 1]

Undefined == [k |-> "undef", n |-> 0, d |-> 1]

Zero == Rat(0, 1)

IsNum(v) == v.k = "num"

\* undefined converts to NaN in arithmetic
IsNaN(v) == v.k \in {"nan", "undef"}

\* !v on a number-or-undefined value: undefined, NaN and 0 are falsy
Falsy(v) == IsNaN(v) \/ (IsNum(v) /\ v.n = 0)

\* a + b (no -Infinity arises in the program: the only Infinity is d0 / 0)
Add(a, b) ==
    IF IsNaN(a) \/ IsNaN(b) THEN NaN
    ELSE IF a.k = "inf" \/ b.k = "inf" THEN Infinity
    ELSE LET g == GCD(a.d, b.d)
         IN  Rat(a.n * (b.d \div g) + b.n * (a.d \div g), (a.d \div g) * b.d)

Neg(a) == IF IsNum(a) THEN Rat(-a.n, a.d) ELSE NaN

Sub(a, b) == Add(a, Neg(b))

\* a * b for b >= 0 or a >= 0 whenever the other is Infinity
Mul(a, b) ==
    IF IsNaN(a) \/ IsNaN(b) THEN NaN
    ELSE IF a.k = "inf" \/ b.k = "inf"
         THEN IF (IsNum(a) /\ a.n = 0) \/ (IsNum(b) /\ b.n = 0) THEN NaN ELSE Infinity
    ELSE Rat(a.n * b.n, a.d * b.d)

\* a / b for a >= 0, b >= 0: x/0 is Infinity for x > 0 and NaN for x = 0
Div(a, b) ==
    IF IsNaN(a) \/ IsNaN(b) THEN NaN
    ELSE IF b.k = "inf" THEN (IF a.k = "inf" THEN NaN ELSE Zero)
    ELSE IF a.k = "inf" THEN Infinity
    ELSE IF b.n = 0 THEN (IF a.n = 0 THEN NaN ELSE Infinity)
    ELSE Rat(a.n * b.d, a.d * b.n)

\* a < b on numbers and Infinity
Less(a, b) ==
    IF a.k = "inf" THEN FALSE
    ELSE IF b.k = "inf" THEN TRUE
    ELSE LET g == GCD(a.d, b.d)
         IN  a.n * (b.d \div g) < b.n * (a.d \div g)

Leq(a, b) == a = b \/ Less(a, b)

\* Math.min and Math.max return NaN when an argument is NaN
MathMin(a, b) ==
    IF IsNaN(a) \/ IsNaN(b) THEN NaN ELSE IF Less(b, a) THEN b ELSE a

MathMax(a, b) ==
    IF IsNaN(a) \/ IsNaN(b) THEN NaN ELSE IF Less(a, b) THEN b ELSE a

RECURSIVE SqrtSearch(_, _, _)
SqrtSearch(lo, hi, n) ==
    IF lo >= hi THEN lo
    ELSE LET mid == (lo + hi + 1) \div 2
         IN  IF mid * mid <= n THEN SqrtSearch(mid, hi, n)
             ELSE SqrtSearch(lo, mid - 1, n)

\* Math.sqrt on a non-negative integer; exact on perfect squares, which is
\* what every well-formed touch frame of TwoTouchFrames produces (the search
\* stops at 46340, the largest root whose square is a 32-bit integer)
MathSqrt(v) ==
    IF IsNaN(v) THEN NaN
    ELSE IF v.k = "inf" THEN Infinity
    ELSE Rat(SqrtSearch(0, IF v.n < 46340 THEN v.n ELSE 46340, v.n), 1)

\* Math.pow(v, 2)
Pow2(v) == Mul(v, v)

(* ------------------------- program constants -------------------------- *)

PI == Rat(355, 113)

\* Math.PI / 3, the pitch limit
PitchLimit == Div(PI, Rat(3, 1))

\* const sensitivity = 0.0004
sensitivity == Rat(4, 10000)

\* sensitivity - 0.0003, the vertical sensitivity
verticalSensitivity == Sub(sensitivity, Rat(3, 10000))

\* bikeModelRef.current.rotation.y += 0.005
AutoRotateStep == Rat(5, 1000)

ZoomMin == Rat(1, 2)

ZoomMax == Rat(12, 1)

\* useRef(2.0)
InitialZoom == Rat(2, 1)

Vec(x, y, z) == [x |-> x, y |-> y, z |-> z]

\* camera.position.set(1.0, 0.4, 5.0); camera.lookAt(1.0, -0.2, 0)
InitialCameraPosition == Vec(Rat(1, 1), Rat(4, 10), Rat(5, 1))

InitialCameraTarget == Vec(Rat(1, 1), Rat(-2, 10), Zero)

\* camera.position.set(1.0, 0.75, (4.0 * zoom) / 2.0); camera.lookAt(1.0, -0.3, 0)
PinchCameraPosition(zoom) ==
    Vec(Rat(1, 1), Rat(75, 100), Div(Mul(Rat(4, 1), zoom), Rat(2, 1)))

PinchCameraTarget == Vec(Rat(1, 1), Rat(-3, 10), Zero)

Rot(x, y) == [x |-> x, y |-> y]

\* the number of child meshes createFallbackModel adds to its group
FallbackChildren == 4

\* the single box of the geometric stand-in of loadMotorcycleModel
BoxChildren == 1

(* ------------------------------ bounds -------------------------------- *)

\* touch-move events delivered per mount
MaxMoves == 2

\* animation-frame callbacks run per mount
MaxFrames == 2

\* load() calls on three.js loaders observed
MaxFetches == 2

\* viewer instances mounted
MaxViewers == 2

(* ------------------------------ inputs -------------------------------- *)

Pt(x, y) == [pageX |-> Rat(x, 1), pageY |-> Rat(y, 1)]

\* two-touch frames: coincident points (distance 0), adjacent points
\* (distance 1), a 3-4-5 triangle and a very large distance (5000)
TwoTouchFrames ==
    { <<Pt(0, 0), Pt(0, 0)>>,
      <<Pt(10, 20), Pt(11, 20)>>,
      <<Pt(0, 0), Pt(3, 4)>>,
      <<Pt(0, 0), Pt(3000, 4000)>> }

OneTouchFrames == { <<Pt(7, 9)>> }

\* frames with no touch point or with three
OtherFrames == { << >>, <<Pt(0, 0), Pt(3, 4), Pt(6, 8)>> }

Displacement(dx, dy) == [dx |-> Rat(dx, 1), dy |-> Rat(dy, 1)]

\* cumulative displacements (dx, dy) reported by the gesture recogniser: a
\* horizontal drag, a diagonal drag and a very large upward drag
GestureStates ==
    { Displacement(100, 0), Displacement(50, 5000), Displacement(50, -20000) }

\* a touch point delivered without pageX / pageY
NoCoordinates == [pageX |-> Undefined, pageY |-> Undefined]

\* two-touch frames in which one touch point has no coordinates
MalformedTwoTouchFrames ==
    { <<NoCoordinates, Pt(3, 4)>>, <<Pt(0, 0), NoCoordinates>> }

\* a gestureState delivered without dx / dy
MissingDisplacement == [dx |-> Undefined, dy |-> Undefined]

(* ------------------------------- state -------------------------------- *)

VARIABLES
    platform,       \* Platform.OS: "web" or "ios"
    GLTFLoader,     \* TRUE iff require("three/examples/jsm/loaders/GLTFLoader") succeeded
    autoRotate,     \* the autoRotate prop
    mounted,        \* FALSE once React has unmounted the component
    pc,             \* position of the asynchronous load routine
    loading,        \* useState(true)
    error,          \* useState(null): "null" or the kind of message
    modelLoaded,    \* useState(false)
    scene,          \* the model groups among scene.children, in insertion order
    objects,        \* group id -> [rotation, children]
    meshes,         \* the meshes of the parsed scene graph handed to the routine
    bikeModelRef,   \* "null" or the id of the active group
    cameraRef,      \* [set, position, target]
    rotationRef,    \* the session rotation {x, y}
    zoomRef,        \* the zoom factor
    velocityRef,    \* {x, y}
    pinchDataRef,   \* {initialDistance, initialZoom}
    responder,      \* TRUE between onPanResponderGrant and onPanResponderRelease
    grantRef,       \* history: bikeModelRef at the last grant
    grantRot,       \* history: the active model's rotation at the last grant
    gestureMoves,   \* history: one-touch moves applied since the last grant
    moves,          \* touch-move events delivered so far
    rafPending,     \* requestAnimationFrame callbacks scheduled and not yet run
    frames,         \* render() invocations (each ends in gl.endFrameEXP())
    drawCalls,      \* renderer.render() calls
    loaderCalls,    \* the URIs loader.load() was invoked with, in order
    failure,        \* history: "none" or why the load or the set-up failed
    patches,        \* how often each prototype patch has been applied
    fetch,          \* history: the last load() call on a three.js loader and its outcome
    fetches         \* load() calls on three.js loaders observed so far

vars == <<platform, GLTFLoader, autoRotate, mounted, pc, loading, error,
          modelLoaded, scene, objects, meshes, bikeModelRef, cameraRef, rotationRef,
          zoomRef, velocityRef, pinchDataRef, responder, grantRef, grantRot, gestureMoves,
          moves, rafPending, frames, drawCalls, loaderCalls, failure, patches, fetch,
          fetches>>

envVars == <<platform, GLTFLoader, autoRotate, fetch, fetches>>

loadVars == <<pc, loading, error, modelLoaded, scene, meshes, bikeModelRef,
              loaderCalls, failure>>

gestureVars == <<rotationRef, zoomRef, velocityRef, pinchDataRef, responder,
                 grantRef, grantRot, gestureMoves, moves>>

renderVars == <<rafPending, frames, drawCalls>>

\* the model groups a load routine can create: the parsed scene graph, the
\* group of createFallbackModel and the one-box stand-in of loadMotorcycleModel
Groups == {"model", "fallback", "box"}

\* a group that has not been constructed
NoObject == [rotation |-> Rot(Zero, Zero), children |-> 0]

EmptyPinch == [initialDistance |-> Undefined, initialZoom |-> Undefined]

NoCamera == [set |-> FALSE, position |-> Vec(Zero, Zero, Zero), target |-> Vec(Zero, Zero, Zero)]

\* no patch applied
Unpatched == [three |-> 0, gltf |-> 0, parser |-> 0, viewers |-> 0]

\* patchThreeJSForMobile(): TextureLoader.prototype.load and
\* FileLoader.prototype.load are wrapped once more
PatchThreeJSForMobile(p) ==
    IF platform # "web" THEN [p EXCEPT !.three = @ + 1] ELSE p

\* patchGLTFLoaderForMobile(): GLTFLoader.prototype.load is wrapped once more
PatchGLTFLoaderForMobile(p) ==
    IF platform # "web" /\ GLTFLoader THEN [p EXCEPT !.gltf = @ + 1] ELSE p

\* patchGLTFParserForMobile(): Loader.prototype.load is wrapped once more
\* (three has no THREE.GLTFLoader, so _invokeAll is left alone)
PatchGLTFParserForMobile(p) ==
    IF platform # "web" /\ GLTFLoader THEN [p EXCEPT !.parser = @ + 1] ELSE p

\* the mount effect of one viewer instance
MountEffect(p) ==
    [PatchGLTFParserForMobile(PatchGLTFLoaderForMobile(PatchThreeJSForMobile(p)))
        EXCEPT !.viewers = @ + 1]

\* no load() call observed
NoFetch == [loader |-> "none", url |-> << >>, hasOnLoad |-> FALSE, original |-> 0,
            onLoad |-> 0, onError |-> 0, result |-> "none"]

\* the state once the component is mounted and its mount effect has run
Init ==
    /\ platform \in {"web", "ios"}
    /\ GLTFLoader \in BOOLEAN
    /\ patches = MountEffect(Unpatched)
    /\ fetch = NoFetch
    /\ fetches = 0
    /\ autoRotate \in BOOLEAN
    /\ mounted = TRUE
    /\ pc = "mounted"
    /\ loading = TRUE
    /\ error = "null"
    /\ modelLoaded = FALSE
    /\ scene = << >>
    /\ objects = [g \in Groups |-> NoObject]
    /\ meshes = << >>
    /\ bikeModelRef = "null"
    /\ cameraRef = NoCamera
    /\ rotationRef = Rot(Zero, Zero)
    /\ zoomRef = InitialZoom
    /\ velocityRef = Rot(Zero, Zero)
    /\ pinchDataRef = EmptyPinch
    /\ responder = FALSE
    /\ grantRef = "null"
    /\ grantRot = Rot(Zero, Zero)
    /\ gestureMoves = 0
    /\ moves = 0
    /\ rafPending = 0
    /\ frames = 0
    /\ drawCalls = 0
    /\ loaderCalls = << >>
    /\ failure = "none"

(* ------------------------ gesture controller -------------------------- *)

\* OnPanResponderGrant without the snapshot of the model's rotation
OnPanResponderGrantNoSnapshot ==
    /\ mounted /\ ~responder
    /\ responder' = TRUE
    /\ velocityRef' = Rot(Zero, Zero)
    /\ pinchDataRef' = EmptyPinch
    /\ grantRef' = bikeModelRef
    /\ grantRot' = IF bikeModelRef # "null" THEN objects[bikeModelRef].rotation ELSE grantRot
    /\ gestureMoves' = 0
    /\ UNCHANGED <<rotationRef, zoomRef, moves, objects, cameraRef>>
    /\ UNCHANGED <<envVars, patches, mounted, loadVars, renderVars>>

\* onPanResponderGrant
OnPanResponderGrant ==
    /\ mounted /\ ~responder
    /\ responder' = TRUE
    /\ rotationRef' = IF bikeModelRef # "null"
                      THEN objects[bikeModelRef].rotation
                      ELSE rotationRef
    /\ velocityRef' = Rot(Zero, Zero)
    /\ pinchDataRef' = EmptyPinch
    /\ grantRef' = bikeModelRef
    /\ grantRot' = IF bikeModelRef # "null" THEN objects[bikeModelRef].rotation ELSE grantRot
    /\ gestureMoves' = 0
    /\ UNCHANGED <<zoomRef, moves, objects, cameraRef>>
    /\ UNCHANGED <<envVars, patches, mounted, loadVars, renderVars>>

\* the Euclidean distance between two touch points
TouchDistance(touch1, touch2) ==
    MathSqrt(Add(Pow2(Sub(touch2.pageX, touch1.pageX)),
                 Pow2(Sub(touch2.pageY, touch1.pageY))))

\* RotatedSession without the Math.max/Math.min limit on the pitch
RotatedSessionUnclamped(rot, gestureState) ==
    Rot(Add(rot.x, Mul(gestureState.dy, verticalSensitivity)),
        Add(rot.y, Mul(gestureState.dx, sensitivity)))

\* the one-touch branch of onPanResponderMove: the new session rotation
RotatedSession(rot, gestureState) ==
    LET deltaY == Mul(gestureState.dx, sensitivity)
        deltaX == Mul(gestureState.dy, verticalSensitivity)
        y == Add(rot.y, deltaY)
        x == Add(rot.x, deltaX)
    IN  Rot(MathMax(Neg(PitchLimit), MathMin(PitchLimit, x)), y)

\* Math.max(0.5, Math.min(12, newZoom))
ClampZoom(newZoom) == MathMax(ZoomMin, MathMin(ZoomMax, newZoom))

\* the pinch session after "store initial distance if not set"
PinchSession(pinch, distance, zoom) ==
    IF Falsy(pinch.initialDistance)
    THEN [initialDistance |-> distance, initialZoom |-> zoom]
    ELSE pinch

\* the zoom factor a two-touch frame computes
PinchZoom(pinch, distance) ==
    ClampZoom(Mul(pinch.initialZoom, Div(pinch.initialDistance, distance)))

\* OnPanResponderMove whose rotation branch adds the frame's deltas to the
\* rotation the model has, instead of assigning the session rotation to it
OnPanResponderMoveAccumulating(touches, gestureState) ==
    /\ mounted /\ responder /\ moves < MaxMoves
    /\ moves' = moves + 1
    /\ IF Len(touches) = 1 /\ bikeModelRef # "null"
       THEN /\ velocityRef' = Rot(Mul(gestureState.dy, verticalSensitivity),
                                  Mul(gestureState.dx, sensitivity))
            /\ rotationRef' = RotatedSession(rotationRef, gestureState)
            /\ objects' = [objects EXCEPT ![bikeModelRef].rotation =
                              Rot(Add(@.x, Sub(rotationRef'.x, rotationRef.x)),
                                  Add(@.y, Sub(rotationRef'.y, rotationRef.y)))]
            /\ gestureMoves' = gestureMoves + 1
            /\ UNCHANGED <<zoomRef, pinchDataRef, cameraRef>>
       ELSE IF Len(touches) = 2 /\ cameraRef.set
       THEN LET distance == TouchDistance(touches[1], touches[2])
                pinch == PinchSession(pinchDataRef, distance, zoomRef)
            IN  /\ pinchDataRef' = pinch
                /\ zoomRef' = PinchZoom(pinch, distance)
                /\ cameraRef' = [set |-> TRUE,
                                 position |-> PinchCameraPosition(zoomRef'),
                                 target |-> PinchCameraTarget]
                /\ UNCHANGED <<velocityRef, rotationRef, objects, gestureMoves>>
       ELSE UNCHANGED <<velocityRef, rotationRef, objects, zoomRef, pinchDataRef,
                        cameraRef, gestureMoves>>
    /\ UNCHANGED <<responder, grantRef, grantRot>>
    /\ UNCHANGED <<envVars, patches, mounted, loadVars, renderVars>>

\* OnPanResponderMove whose rotation branch is taken for every frame that has
\* a touch point, whatever the touch count
OnPanResponderMoveUnkeyed(touches, gestureState) ==
    /\ mounted /\ responder /\ moves < MaxMoves
    /\ moves' = moves + 1
    /\ IF Len(touches) >= 1 /\ bikeModelRef # "null"
       THEN /\ velocityRef' = Rot(Mul(gestureState.dy, verticalSensitivity),
                                  Mul(gestureState.dx, sensitivity))
            /\ rotationRef' = RotatedSession(rotationRef, gestureState)
            /\ objects' = [objects EXCEPT ![bikeModelRef].rotation = rotationRef']
            /\ gestureMoves' = gestureMoves + 1
            /\ UNCHANGED <<zoomRef, pinchDataRef, cameraRef>>
       ELSE UNCHANGED <<velocityRef, rotationRef, objects, zoomRef, pinchDataRef,
                        cameraRef, gestureMoves>>
    /\ UNCHANGED <<responder, grantRef, grantRot>>
    /\ UNCHANGED <<envVars, patches, mounted, loadVars, renderVars>>

\* onPanResponderMove
OnPanResponderMove(touches, gestureState) ==
    /\ mounted /\ responder /\ moves < MaxMoves
    /\ moves' = moves + 1
    /\ IF Len(touches) = 1 /\ bikeModelRef # "null"
       THEN /\ velocityRef' = Rot(Mul(gestureState.dy, verticalSensitivity),
                                  Mul(gestureState.dx, sensitivity))
            /\ rotationRef' = RotatedSession(rotationRef, gestureState)
            /\ objects' = [objects EXCEPT ![bikeModelRef].rotation = rotationRef']
            /\ gestureMoves' = gestureMoves + 1
            /\ UNCHANGED <<zoomRef, pinchDataRef, cameraRef>>
       ELSE IF Len(touches) = 2 /\ cameraRef.set
       THEN LET distance == TouchDistance(touches[1], touches[2])
                pinch == PinchSession(pinchDataRef, distance, zoomRef)
            IN  /\ pinchDataRef' = pinch
                /\ zoomRef' = PinchZoom(pinch, distance)
                /\ cameraRef' = [set |-> TRUE,
                                 position |-> PinchCameraPosition(zoomRef'),
                                 target |-> PinchCameraTarget]
                /\ UNCHANGED <<velocityRef, rotationRef, objects, gestureMoves>>
       ELSE UNCHANGED <<velocityRef, rotationRef, objects, zoomRef, pinchDataRef,
                        cameraRef, gestureMoves>>
    /\ UNCHANGED <<responder, grantRef, grantRot>>
    /\ UNCHANGED <<envVars, patches, mounted, loadVars, renderVars>>

\* OnPanResponderRelease with a momentum step: the last velocity is applied
\* once more to the session rotation and to the model
OnPanResponderReleaseWithMomentum ==
    /\ mounted /\ responder
    /\ responder' = FALSE
    /\ pinchDataRef' = EmptyPinch
    /\ rotationRef' = Rot(Add(rotationRef.x, velocityRef.x), Add(rotationRef.y, velocityRef.y))
    /\ objects' = IF bikeModelRef # "null"
                  THEN [objects EXCEPT ![bikeModelRef].rotation = rotationRef']
                  ELSE objects
    /\ UNCHANGED <<zoomRef, velocityRef, grantRef, grantRot, gestureMoves, moves, cameraRef>>
    /\ UNCHANGED <<envVars, patches, mounted, loadVars, renderVars>>

\* onPanResponderRelease
OnPanResponderRelease ==
    /\ mounted /\ responder
    /\ responder' = FALSE
    /\ pinchDataRef' = EmptyPinch
    /\ UNCHANGED <<rotationRef, zoomRef, velocityRef, grantRef, grantRot, gestureMoves, moves,
                   objects, cameraRef>>
    /\ UNCHANGED <<envVars, patches, mounted, loadVars, renderVars>>

(* ----------------------- scene graph and materials -------------------- *)

\* the texture slots of a material
TextureSlots == {"map", "normalMap", "roughnessMap", "metalnessMap", "aoMap", "emissiveMap"}

UpperChars == <<"A", "B", "C", "D", "E", "F", "G", "H", "I", "J", "K", "L", "M",
                "N", "O", "P", "Q", "R", "S", "T", "U", "V", "W", "X", "Y", "Z">>

LowerChars == <<"a", "b", "c", "d", "e", "f", "g", "h", "i", "j", "k", "l", "m",
                "n", "o", "p", "q", "r", "s", "t", "u", "v", "w", "x", "y", "z">>

\* String.prototype.toLowerCase on a string given as a sequence of characters
ToLowerCase(str) ==
    [i \in 1..Len(str) |->
        IF \E j \in 1..Len(UpperChars) : UpperChars[j] = str[i]
        THEN LowerChars[CHOOSE j \in 1..Len(UpperChars) : UpperChars[j] = str[i]]
        ELSE str[i]]

\* String.prototype.includes
Includes(str, kw) ==
    \E i \in 0..(Len(str) - Len(kw)) : \A j \in 1..Len(kw) : str[i + j] = kw[j]

IncludesAny(str, kws) == \E kw \in kws : Includes(str, kw)

\* the keywords the BodyPaint branch tests on the material name
BodyPaintMaterialKeywords ==
    { <<"b", "o", "d", "y">>,
      <<"f", "a", "i", "r", "i", "n", "g">>,
      <<"t", "a", "n", "k">> }

\* the keywords the BodyPaint branch tests on the mesh name
BodyPaintMeshKeywords ==
    { <<"b", "o", "d", "y">>,
      <<"f", "a", "i", "r", "i", "n", "g">>,
      <<"t", "a", "n", "k">>,
      <<"p", "a", "i", "n", "t">> }

\* the keywords the Chrome branch tests on the material name
ChromeMaterialKeywords ==
    { <<"m", "e", "t", "a", "l">>,
      <<"c", "h", "r", "o", "m", "e">> }

\* the keywords the Chrome branch tests on the mesh name
ChromeMeshKeywords ==
    { <<"m", "e", "t", "a", "l">>,
      <<"c", "h", "r", "o", "m", "e">>,
      <<"s", "i", "l", "v", "e", "r">>,
      <<"e", "x", "h", "a", "u", "s", "t">> }

\* the keywords the Rubber branch tests on the material name
RubberMaterialKeywords ==
    { <<"r", "u", "b", "b", "e", "r">>,
      <<"t", "i", "r", "e">> }

\* the keywords the Rubber branch tests on the mesh name
RubberMeshKeywords ==
    { <<"t", "i", "r", "e">>,
      <<"w", "h", "e", "e", "l">>,
      <<"r", "u", "b", "b", "e", "r">> }

\* the keywords the Glass branch tests on the material name
GlassMaterialKeywords ==
    { <<"g", "l", "a", "s", "s">>,
      <<"w", "i", "n", "d", "o", "w">>,
      <<"s", "c", "r", "e", "e", "n">>,
      <<"v", "i", "s", "o", "r">> }

\* the keywords the Glass branch tests on the mesh name
GlassMeshKeywords ==
    { <<"g", "l", "a", "s", "s">>,
      <<"w", "i", "n", "d", "o", "w">>,
      <<"s", "c", "r", "e", "e", "n">>,
      <<"v", "i", "s", "o", "r">> }

\* the keywords the Light branch tests on the material name
LightMaterialKeywords ==
    { <<"l", "i", "g", "h", "t">>,
      <<"h", "e", "a", "d", "l", "i", "g", "h", "t">>,
      <<"t", "a", "i", "l", "l", "i", "g", "h", "t">> }

\* the keywords the Light branch tests on the mesh name
LightMeshKeywords ==
    { <<"l", "i", "g", "h", "t">>,
      <<"l", "a", "m", "p">>,
      <<"l", "e", "d">> }

\* the keywords the Seat branch tests on the material name
SeatMaterialKeywords ==
    { <<"s", "e", "a", "t">> }

\* the keywords the Seat branch tests on the mesh name
SeatMeshKeywords ==
    { <<"s", "e", "a", "t">>,
      <<"s", "a", "d", "d", "l", "e">> }

\* the keywords the AccentDetail branch tests on the material name
AccentDetailMaterialKeywords ==
    { <<"a", "c", "c", "e", "n", "t">>,
      <<"d", "e", "t", "a", "i", "l">>,
      <<"s", "t", "r", "i", "p", "e">>,
      <<"l", "o", "g", "o">> }

\* the keywords the AccentDetail branch tests on the mesh name
AccentDetailMeshKeywords ==
    { <<"a", "c", "c", "e", "n", "t">>,
      <<"d", "e", "t", "a", "i", "l">>,
      <<"s", "t", "r", "i", "p", "e">>,
      <<"l", "o", "g", "o">>,
      <<"b", "a", "d", "g", "e">> }

\* the keywords the CarbonFiber branch tests on the material name
CarbonFiberMaterialKeywords ==
    { <<"c", "a", "r", "b", "o", "n">> }

\* the keywords the CarbonFiber branch tests on the mesh name
CarbonFiberMeshKeywords ==
    { <<"c", "a", "r", "b", "o", "n">>,
      <<"f", "i", "b", "e", "r">> }

\* position.count > 5000
VertexThreshold == 5000

\* the branch of the if/else-if chain of loadMotorcycleModel that a mesh takes,
\* given its lower-cased material name, its lower-cased name and its vertex count
Classify(materialName, meshName, vertexCount) ==
    IF \/ IncludesAny(materialName, BodyPaintMaterialKeywords)
       \/ IncludesAny(meshName, BodyPaintMeshKeywords)
       \/ vertexCount > VertexThreshold
    THEN "BodyPaint"
    ELSE IF \/ IncludesAny(materialName, ChromeMaterialKeywords)
            \/ IncludesAny(meshName, ChromeMeshKeywords)
    THEN "Chrome"
    ELSE IF \/ IncludesAny(materialName, RubberMaterialKeywords)
            \/ IncludesAny(meshName, RubberMeshKeywords)
    THEN "Rubber"
    ELSE IF \/ IncludesAny(materialName, GlassMaterialKeywords)
            \/ IncludesAny(meshName, GlassMeshKeywords)
    THEN "Glass"
    ELSE IF \/ IncludesAny(materialName, LightMaterialKeywords)
            \/ IncludesAny(meshName, LightMeshKeywords)
    THEN "Light"
    ELSE IF \/ IncludesAny(materialName, SeatMaterialKeywords)
            \/ IncludesAny(meshName, SeatMeshKeywords)
    THEN "Seat"
    ELSE IF \/ IncludesAny(materialName, AccentDetailMaterialKeywords)
            \/ IncludesAny(meshName, AccentDetailMeshKeywords)
    THEN "AccentDetail"
    ELSE IF \/ IncludesAny(materialName, CarbonFiberMaterialKeywords)
            \/ IncludesAny(meshName, CarbonFiberMeshKeywords)
    THEN "CarbonFiber"
    ELSE "Default"

\* the branches that call material.emissive.setHex
EmissiveCategories == {"BodyPaint", "Chrome", "Glass", "Light", "AccentDetail"}

\* a material as the parser delivers it: a name, the texture slots that hold a
\* texture, and whether it has an emissive component (MeshStandardMaterial
\* has one, MeshBasicMaterial has none)
Material(name, maps, hasEmissive) ==
    [name |-> name, maps |-> maps, hasEmissive |-> hasEmissive,
     category |-> "unprocessed", color |-> "original", emissive |-> "original",
     metalness |-> Rat(1, 1), roughness |-> Rat(1, 1),
     opacity |-> Rat(1, 1), transparent |-> FALSE]

\* the assignments of one branch of the chain, applied to the cloned material
ApplyCategory(material, category) ==
    LET m == [material EXCEPT !.category = category]
    IN  CASE category = "BodyPaint" ->
               [m EXCEPT !.metalness = Rat(85, 100), !.roughness = Rat(15, 100),
                         !.emissive = "0x080808"]
          [] category = "Chrome" ->
               [m EXCEPT !.color = "0xe0e0e0", !.metalness = Rat(95, 100),
                         !.roughness = Rat(2, 100), !.emissive = "0x0a0a0a"]
          [] category = "Rubber" ->
               [m EXCEPT !.color = "0x1a1a1a", !.metalness = Zero,
                         !.roughness = Rat(9, 10)]
          [] category = "Glass" ->
               [m EXCEPT !.color = "0xd8e6f0", !.metalness = Rat(2, 10),
                         !.roughness = Zero, !.opacity = Rat(3, 10),
                         !.transparent = TRUE, !.emissive = "0x001122"]
          [] category = "Light" ->
               [m EXCEPT !.color = "0xffffff", !.metalness = Zero,
                         !.roughness = Rat(1, 10), !.emissive = "0x666666"]
          [] category = "Seat" ->
               [m EXCEPT !.color = "0x222222", !.metalness = Rat(1, 10),
                         !.roughness = Rat(8, 10)]
          [] category = "AccentDetail" ->
               [m EXCEPT !.color = "0xffffff", !.metalness = Rat(6, 10),
                         !.roughness = Rat(2, 10), !.emissive = "0x222222"]
          [] category = "CarbonFiber" ->
               [m EXCEPT !.color = "0x1d1e20", !.metalness = Rat(4, 10),
                         !.roughness = Rat(3, 10)]
          [] OTHER ->
               [m EXCEPT !.color = "0x7d7d7d", !.metalness = Rat(5, 10),
                         !.roughness = Rat(4, 10)]

\* new MeshStandardMaterial({ color: 0x7d7d7d, roughness: 0.4, metalness: 0.5 })
GrayMaterial ==
    [Material(<< >>, {}, TRUE) EXCEPT !.category = "gray", !.color = "0x7d7d7d",
                                     !.roughness = Rat(4, 10), !.metalness = Rat(5, 10)]

\* a mesh node: material is the sequence of its materials (one element unless
\* the mesh carries a material array, none when it has no material)
MeshNode(name, material, isArray, vertexCount) ==
    [name |-> name, material |-> material, isArray |-> isArray,
     vertexCount |-> vertexCount, castShadow |-> FALSE, receiveShadow |-> FALSE]

\* ProcessMesh without the try/catch around the body: the exception leaves
\* the mesh as the parser delivered it
ProcessMeshUncaught(child, os) ==
    IF Len(child.material) = 0 THEN child
    ELSE IF child.isArray THEN child
    ELSE LET cloned == child.material[1]
             material == IF os # "web" THEN [cloned EXCEPT !.maps = {}] ELSE cloned
             category == Classify(ToLowerCase(material.name), ToLowerCase(child.name),
                                  child.vertexCount)
         IN  IF category \in EmissiveCategories /\ ~material.hasEmissive
             THEN child
             ELSE [child EXCEPT !.material = <<ApplyCategory(material, category)>>,
                                !.castShadow = TRUE, !.receiveShadow = TRUE]

\* the body of the traverse callback of loadMotorcycleModel for one mesh
ProcessMesh(child, os) ==
    IF Len(child.material) = 0 THEN child
    ELSE IF child.isArray
    THEN \* child.material.clone is not a function: the catch block runs
         [child EXCEPT !.material = <<GrayMaterial>>, !.isArray = FALSE]
    ELSE LET cloned == child.material[1]
             material == IF os # "web" THEN [cloned EXCEPT !.maps = {}] ELSE cloned
             category == Classify(ToLowerCase(material.name), ToLowerCase(child.name),
                                  child.vertexCount)
         IN  IF category \in EmissiveCategories /\ ~material.hasEmissive
             THEN \* material.emissive is undefined: the catch block runs
                  [child EXCEPT !.material = <<GrayMaterial>>]
             ELSE [child EXCEPT !.material = <<ApplyCategory(material, category)>>,
                                !.castShadow = TRUE, !.receiveShadow = TRUE]

\* the success callback the parse override of ReactNativeGLTFLoader wraps
\* around onLoad: every texture slot of every material of every mesh is nulled
ClearTextures(child) ==
    [child EXCEPT !.material = [i \in 1..Len(child.material) |->
                                    [child.material[i] EXCEPT !.maps = {}]]]

\* the body of the traverse callback of onContextCreate for one mesh
ContextProcessMesh(child) ==
    IF Len(child.material) = 0 THEN child
    ELSE [child EXCEPT !.castShadow = TRUE, !.receiveShadow = TRUE]

\* how the parse of the asset went: "plain" is the unwrapped GLTFLoader,
\* "wrapped" the parse override of ReactNativeGLTFLoader completing through its
\* own callback, "retry" its catch block calling originalParse with the
\* caller's onLoad
ParsePaths(os) == IF os = "web" THEN {"plain"} ELSE {"wrapped", "retry"}

\* the meshes of gltf.scene as the load routine's onLoad receives them
Delivered(gltf, parsePath) ==
    IF parsePath = "wrapped" /\ gltf.hasScene
    THEN [i \in 1..Len(gltf.meshes) |->
             IF Len(gltf.meshes[i].material) > 0 THEN ClearTextures(gltf.meshes[i])
             ELSE gltf.meshes[i]]
    ELSE gltf.meshes

NameChassis == <<"c", "h", "a", "s", "s", "i", "s">>

NameBodyPaint01 == <<"B", "o", "d", "y", "_", "P", "a", "i", "n", "t", "_", "0", "1">>

NameFrontTire == <<"F", "r", "o", "n", "t", "_", "T", "i", "r", "e">>

NameMat == <<"M", "a", "t">>

NameCover == <<"C", "o", "v", "e", "r">>

NameVisor == <<"V", "i", "s", "o", "r">>

NameChromeTrim == <<"C", "h", "r", "o", "m", "e", "_", "T", "r", "i", "m">>

NameExhaustPipe == <<"E", "x", "h", "a", "u", "s", "t", "_", "P", "i", "p", "e">>

\* parse results handed to onLoad: a graph with two textured meshes, a mesh
\* with a material array, a mesh whose material has no emissive component, a
\* mesh without material, a small tire, a large and a small mesh without any
\* keyword, a tire with a chrome material and a cover with an exhaust
\* material; and a result without scene
GltfResults ==
    { [hasScene |-> TRUE,
       meshes |-> << MeshNode(NameChassis,
                              <<Material(NameBodyPaint01, {"map", "normalMap"}, TRUE)>>,
                              FALSE, 200),
                     MeshNode(NameFrontTire,
                              <<Material(NameMat, TextureSlots, TRUE)>>, FALSE, 8000),
                     MeshNode(NameCover,
                              <<Material(NameMat, {"map"}, TRUE),
                                Material(NameMat, {"emissiveMap"}, TRUE)>>, TRUE, 200),
                     MeshNode(NameVisor,
                              <<Material(NameMat, {"aoMap"}, FALSE)>>, FALSE, 200),
                     MeshNode(NameCover, << >>, FALSE, 200),
                     MeshNode(NameFrontTire,
                              <<Material(NameMat, {}, TRUE)>>, FALSE, 200),
                     MeshNode(NameCover,
                              <<Material(NameMat, {}, TRUE)>>, FALSE, 8000),
                     MeshNode(NameCover,
                              <<Material(NameMat, {}, TRUE)>>, FALSE, 200),
                     MeshNode(NameFrontTire,
                              <<Material(NameChromeTrim, {}, TRUE)>>, FALSE, 200),
                     MeshNode(NameCover,
                              <<Material(NameExhaustPipe, {}, TRUE)>>, FALSE, 200) >>],
      [hasScene |-> FALSE, meshes |-> << >>] }

(* ----------------------------- load routines -------------------------- *)

\* the URI an Asset of expo-asset reports, or the string a string-form
\* require() result is: a usable URI or the empty string
AssetUris == {"file:///models/ducati_v4r.glb", ""}

\* modelUri = "./assets/models/ducati_v4r.glb"
WebModelUri == "./assets/models/ducati_v4r.glb"

\* the runtime forms of require("../assets/models/ducati_v4r.glb")
AssetForms == {"number", "string", "other"}

\* createFallbackModel(scene): [scene, objects, ref] after the call
CreateFallbackModel(sc, objs) ==
    [scene |-> Append(sc, "fallback"),
     objects |-> [objs EXCEPT !["fallback"] =
                     [rotation |-> Rot(Zero, Mul(PI, Rat(25, 100))),
                      children |-> FallbackChildren]],
     ref |-> "fallback"]

\* the bikeGroup stand-in of loadMotorcycleModel (one BoxGeometry mesh)
CreateBoxGroup(sc, objs) ==
    [scene |-> Append(sc, "box"),
     objects |-> [objs EXCEPT !["box"] =
                     [rotation |-> Rot(Zero, Zero), children |-> BoxChildren]],
     ref |-> "box"]

\* scene.add(model); bikeModelRef.current = model
AddModel(sc, objs, n) ==
    [scene |-> Append(sc, "model"),
     objects |-> [objs EXCEPT !["model"] =
                     [rotation |-> Rot(Zero, Zero), children |-> n]],
     ref |-> "model"]

\* the rotation onContextCreate gives the loaded model
ContextModelRotation == Rot(Mul(PI, Rat(5, 100)), Mul(PI, Rat(25, 100)))

\* the rotation loadMotorcycleModel gives the loaded model (rotation.x untouched)
LoadedModelRotation == Rot(Zero, Mul(PI, Rat(15, 100)))

\* AutoRotated without the test of autoRotate
AutoRotatedAlways(objs, ref) ==
    IF ref # "null"
    THEN [objs EXCEPT ![ref].rotation.y = Add(@, AutoRotateStep)]
    ELSE objs

\* the auto-rotate step of render() on the active model
AutoRotated(objs, ref) ==
    IF autoRotate /\ ref # "null"
    THEN [objs EXCEPT ![ref].rotation.y = Add(@, AutoRotateStep)]
    ELSE objs

\* render(): reschedule, auto-rotate, draw, endFrame; run on the scene state g
\* with cameraRef.current = camera
RenderOnce(g, camera) ==
    /\ objects' = AutoRotated(g.objects, g.ref)
    /\ frames' = frames + 1
    /\ drawCalls' = IF camera.set THEN drawCalls + 1 ELSE drawCalls

\* ContextLoadFailed with a catch block that starts the load over
ContextLoadFailedRetrying(kind, sc, objs, camera) ==
    LET g == CreateFallbackModel(sc, objs)
    IN  /\ failure' = kind
        /\ error' = "Failed to load 3D model"
        /\ loading' = TRUE
        /\ scene' = g.scene
        /\ bikeModelRef' = g.ref
        /\ RenderOnce(g, camera)
        /\ rafPending' = rafPending + 1
        /\ pc' = "mounted"

\* ContextLoadFailed with a catch block that does not call setLoading(false)
ContextLoadFailedStillLoading(kind, sc, objs, camera) ==
    LET g == CreateFallbackModel(sc, objs)
    IN  /\ failure' = kind
        /\ error' = "Failed to load 3D model"
        /\ loading' = loading
        /\ scene' = g.scene
        /\ bikeModelRef' = g.ref
        /\ RenderOnce(g, camera)
        /\ rafPending' = rafPending + 1
        /\ pc' = "done"

\* the catch (modelError) block of onContextCreate followed by the first
\* render() call
ContextLoadFailed(kind, sc, objs, camera) ==
    LET g == CreateFallbackModel(sc, objs)
    IN  /\ failure' = kind
        /\ error' = "Failed to load 3D model"
        /\ loading' = FALSE
        /\ scene' = g.scene
        /\ bikeModelRef' = g.ref
        /\ RenderOnce(g, camera)
        /\ rafPending' = rafPending + 1
        /\ pc' = "done"

\* SetupFailed with an outer catch that only logs the error
SetupFailedSilently(kind) ==
    /\ failure' = kind
    /\ pc' = "setupFailed"
    /\ UNCHANGED <<error, loading, modelLoaded, scene, objects, meshes, bikeModelRef,
                   loaderCalls, renderVars>>

\* the outer catch of onContextCreate: setError, setLoading(false)
SetupFailed(kind) ==
    /\ failure' = kind
    /\ error' = "GL setup error"
    /\ loading' = FALSE
    /\ pc' = "setupFailed"
    /\ UNCHANGED <<modelLoaded, scene, objects, meshes, bikeModelRef, loaderCalls,
                   renderVars>>

CameraCreated ==
    [set |-> TRUE, position |-> InitialCameraPosition, target |-> InitialCameraTarget]

\* onContextCreate(gl), up to its first await or to its end.  setupThrows is
\* "none", "renderer" (new Renderer or new Scene throws, before cameraRef is
\* set), "lighting" (setupLighting throws) or "asset" (Asset.fromModule(...)
\* cannot resolve the bundled reference)
OnContextCreate(setupThrows) ==
    /\ mounted /\ pc = "mounted"
    /\ IF setupThrows = "renderer"
       THEN /\ SetupFailed("renderSetup")
            /\ UNCHANGED cameraRef
       ELSE IF setupThrows = "lighting"
       THEN /\ cameraRef' = CameraCreated
            /\ SetupFailed("renderSetup")
       ELSE IF setupThrows = "asset"
       THEN /\ cameraRef' = CameraCreated
            /\ SetupFailed("resolution")
       ELSE /\ cameraRef' = CameraCreated
            /\ IF ~GLTFLoader
               THEN \* throw new Error("GLTFLoader not available")
                    /\ ContextLoadFailed("loaderUnavailable", scene, objects, cameraRef')
                    /\ UNCHANGED <<modelLoaded, meshes, loaderCalls>>
               ELSE \* await Asset.loadAsync(...)
                    /\ pc' = "ctxAwaitAsset"
                    /\ UNCHANGED <<loading, error, modelLoaded, scene, objects, meshes,
                                   bikeModelRef, loaderCalls, failure, renderVars>>
    /\ patches' = IF setupThrows = "none"
                  THEN PatchGLTFLoaderForMobile(PatchThreeJSForMobile(patches))
                  ELSE patches
    /\ UNCHANGED <<envVars, mounted, gestureVars>>

\* Asset.loadAsync resolves: the loader is constructed and loader.load called
ContextAssetLoaded(uri, setupThrows) ==
    /\ pc = "ctxAwaitAsset"
    /\ IF setupThrows
       THEN \* new OptimizedGLTFLoader() or loader.load throws: reject(err)
            /\ ContextLoadFailed("loaderSetup", scene, objects, cameraRef)
            /\ UNCHANGED <<modelLoaded, meshes, loaderCalls>>
       ELSE /\ loaderCalls' = Append(loaderCalls, uri)
            /\ pc' = "ctxAwaitLoader"
            /\ UNCHANGED <<loading, error, modelLoaded, scene, objects, meshes,
                           bikeModelRef, failure, renderVars>>
    /\ UNCHANGED <<envVars, patches, mounted, gestureVars, cameraRef>>

\* Asset.loadAsync rejects
ContextAssetFailed ==
    /\ pc = "ctxAwaitAsset"
    /\ ContextLoadFailed("resolution", scene, objects, cameraRef)
    /\ UNCHANGED <<modelLoaded, meshes, loaderCalls>>
    /\ UNCHANGED <<envVars, patches, mounted, gestureVars, cameraRef>>

\* the loader's onLoad: resolve(gltf) and the rest of the inline load.
\* throwAt says where processing the result throws: "none", "beforeAdd"
\* (inside the traverse) or "afterAdd" (bounding box, centring, scaling)
ContextLoaderLoaded(gltf, parsePath, throwAt) ==
    /\ pc = "ctxAwaitLoader"
    /\ LET received == Delivered(gltf, parsePath)
           processed == [i \in 1..Len(received) |-> ContextProcessMesh(received[i])]
           added == AddModel(scene, objects, Len(processed))
       IN  IF ~gltf.hasScene
           THEN \* model = modelData; model.traverse is not a function
                /\ ContextLoadFailed("noScene", scene, objects, cameraRef)
                /\ UNCHANGED <<modelLoaded, meshes>>
           ELSE IF throwAt = "beforeAdd"
           THEN /\ meshes' = processed
                /\ ContextLoadFailed("processing", scene, objects, cameraRef)
                /\ UNCHANGED modelLoaded
           ELSE IF throwAt = "afterAdd"
           THEN /\ meshes' = processed
                /\ ContextLoadFailed("processing", added.scene, added.objects, cameraRef)
                /\ UNCHANGED modelLoaded
           ELSE LET g == [added EXCEPT !.objects["model"].rotation = ContextModelRotation]
                IN  /\ meshes' = processed
                    /\ scene' = g.scene
                    /\ bikeModelRef' = g.ref
                    /\ modelLoaded' = TRUE
                    /\ loading' = FALSE
                    /\ RenderOnce(g, cameraRef)
                    /\ rafPending' = rafPending + 1
                    /\ pc' = "done"
                    /\ UNCHANGED <<error, failure>>
    /\ UNCHANGED <<envVars, patches, mounted, gestureVars, cameraRef, loaderCalls>>

\* the loader's onError: reject(error)
ContextLoaderError ==
    /\ pc = "ctxAwaitLoader"
    /\ ContextLoadFailed("loaderError", scene, objects, cameraRef)
    /\ UNCHANGED <<modelLoaded, meshes, loaderCalls>>
    /\ UNCHANGED <<envVars, patches, mounted, gestureVars, cameraRef>>

\* the "GLTFLoader not available" and catch (assetError) blocks of
\* loadMotorcycleModel: a one-box group, setModelLoaded(true), return
BoxFallback(kind) ==
    LET g == CreateBoxGroup(scene, objects)
    IN  /\ failure' = kind
        /\ scene' = g.scene
        /\ objects' = g.objects
        /\ bikeModelRef' = g.ref
        /\ modelLoaded' = TRUE
        /\ pc' = "done"
        /\ UNCHANGED <<loading, error, meshes, loaderCalls>>

\* loadMotorcycleModel from new LoadingManager() to loader.load(modelUri, ...)
StartLoader(modelUri, setupThrows) ==
    IF modelUri = ""
    THEN \* throw new Error("Could not determine model URI ..."), caught as assetError
         /\ BoxFallback("resolution")
         /\ UNCHANGED patches
    ELSE IF setupThrows
    THEN \* new LoaderClass(manager) throws: the outer catch of the routine
         /\ patches' = PatchThreeJSForMobile(patches)
         /\ failure' = "loaderSetup"
         /\ error' = "Error in model load"
         /\ loading' = FALSE
         /\ pc' = "done"
         /\ UNCHANGED <<modelLoaded, scene, objects, meshes, bikeModelRef, loaderCalls>>
    ELSE /\ patches' = PatchThreeJSForMobile(patches)
         /\ loaderCalls' = Append(loaderCalls, modelUri)
         /\ pc' = "lmmAwaitLoader"
         /\ UNCHANGED <<loading, error, modelLoaded, scene, objects, meshes, bikeModelRef,
                        failure>>

\* loadMotorcycleModel(scene), called on the scene of a context whose set-up
\* succeeded, up to its first await or to its end
LoadMotorcycleModel(requiredAsset, uri, fromModuleThrows, setupThrows) ==
    /\ mounted /\ pc = "mounted"
    /\ cameraRef' = [set |-> TRUE, position |-> InitialCameraPosition,
                     target |-> InitialCameraTarget]
    /\ IF ~GLTFLoader THEN BoxFallback("loaderUnavailable") /\ UNCHANGED patches
       ELSE IF platform = "web" THEN StartLoader(WebModelUri, setupThrows)
       ELSE IF requiredAsset = "string" THEN StartLoader(uri, setupThrows)
       ELSE IF fromModuleThrows THEN BoxFallback("resolution") /\ UNCHANGED patches
       ELSE \* await modelAsset.downloadAsync()
            /\ pc' = "lmmAwaitAsset"
            /\ UNCHANGED <<loading, error, modelLoaded, scene, objects, meshes,
                           bikeModelRef, loaderCalls, failure, patches>>
    /\ UNCHANGED <<envVars, mounted, gestureVars, renderVars>>

\* modelAsset.downloadAsync() resolves: modelUri = localUri || uri
AssetDownloaded(uri, setupThrows) ==
    /\ pc = "lmmAwaitAsset"
    /\ StartLoader(uri, setupThrows)
    /\ UNCHANGED <<envVars, mounted, gestureVars, renderVars, cameraRef>>

\* modelAsset.downloadAsync() rejects
AssetDownloadFailed ==
    /\ pc = "lmmAwaitAsset"
    /\ BoxFallback("resolution")
    /\ UNCHANGED <<envVars, patches, mounted, gestureVars, renderVars, cameraRef>>

\* the catch block of the success callback and the error callback of
\* loadMotorcycleModel: setError, setLoading(false), createFallbackModel
LoadFailed(kind, message, sc, objs) ==
    LET g == CreateFallbackModel(sc, objs)
    IN  /\ failure' = kind
        /\ error' = message
        /\ loading' = FALSE
        /\ scene' = g.scene
        /\ objects' = g.objects
        /\ bikeModelRef' = g.ref
        /\ pc' = "done"

\* the success callback of loader.load in loadMotorcycleModel
LoaderLoaded(gltf, parsePath, throwAt) ==
    /\ pc = "lmmAwaitLoader"
    /\ LET received == Delivered(gltf, parsePath)
           processed == [i \in 1..Len(received) |-> ProcessMesh(received[i], platform)]
           added == AddModel(scene, objects, Len(processed))
       IN  IF ~gltf.hasScene
           THEN \* model is undefined: model.traverse throws
                /\ LoadFailed("noScene", "Error processing model", scene, objects)
                /\ UNCHANGED <<modelLoaded, meshes>>
           ELSE IF throwAt = "beforeAdd"
           THEN /\ meshes' = processed
                /\ LoadFailed("processing", "Error processing model", scene, objects)
                /\ UNCHANGED modelLoaded
           ELSE IF throwAt = "afterAdd"
           THEN /\ meshes' = processed
                /\ LoadFailed("processing", "Error processing model", added.scene,
                           added.objects)
                /\ UNCHANGED modelLoaded
           ELSE /\ meshes' = processed
                /\ scene' = added.scene
                /\ objects' = [added.objects EXCEPT
                                  !["model"].rotation = LoadedModelRotation]
                /\ bikeModelRef' = added.ref
                /\ modelLoaded' = TRUE
                /\ loading' = FALSE
                /\ pc' = "done"
                /\ UNCHANGED <<error, failure>>
    /\ UNCHANGED <<envVars, patches, mounted, gestureVars, renderVars, cameraRef, loaderCalls>>

\* the error callback of loader.load in loadMotorcycleModel
LoaderError ==
    /\ pc = "lmmAwaitLoader"
    /\ LoadFailed("loaderError", "Error loading model", scene, objects)
    /\ UNCHANGED <<modelLoaded, meshes>>
    /\ UNCHANGED <<envVars, patches, mounted, gestureVars, renderVars, cameraRef, loaderCalls>>

(* --------------------------- loader patches --------------------------- *)

ExtJpg == <<".", "j", "p", "g">>

ExtJpeg == <<".", "j", "p", "e", "g">>

ExtPng == <<".", "p", "n", "g">>

ExtWebp == <<".", "w", "e", "b", "p">>

ExtKtx == <<".", "k", "t", "x">>

ExtGlb == <<".", "g", "l", "b">>

\* the substrings the FileLoader.prototype.load wrapper looks for in the url
FileLoaderImageExtensions == {ExtJpg, ExtPng, ExtJpeg, ExtWebp}

\* the substrings the Loader.prototype.load wrapper looks for in the url
LoaderImageExtensions == {ExtJpg, ExtPng, ExtJpeg, ExtWebp, ExtKtx}

\* what a load() call did: how often the unpatched load was invoked, how
\* often a wrapper scheduled onLoad and onError, and what onLoad was given
Outcome(original, onLoad, result) ==
    [original |-> original, onLoad |-> onLoad, onError |-> 0, result |-> result]

\* TextureLoader.prototype.load under depth nested wrappers: the outermost
\* wrapper answers every url with the 1x1 DataTexture
TextureLoaderLoad(depth, url, hasOnLoad) ==
    IF depth = 0 THEN Outcome(1, 0, "original")
    ELSE Outcome(0, IF hasOnLoad THEN 1 ELSE 0, "DataTexture 1x1")

\* FileLoader.prototype.load under depth nested wrappers
RECURSIVE FileLoaderLoad(_, _, _)
FileLoaderLoad(depth, url, hasOnLoad) ==
    IF depth = 0 THEN Outcome(1, 0, "original")
    ELSE IF Len(url) > 0 /\ IncludesAny(url, FileLoaderImageExtensions)
    THEN Outcome(0, IF hasOnLoad THEN 1 ELSE 0, "ArrayBuffer(0)")
    ELSE FileLoaderLoad(depth - 1, url, hasOnLoad)

\* Loader.prototype.load (the load of a loader class that does not override
\* it) under depth nested wrappers
RECURSIVE BaseLoaderLoad(_, _, _)
BaseLoaderLoad(depth, url, hasOnLoad) ==
    IF depth = 0 THEN Outcome(1, 0, "original")
    ELSE IF Len(url) > 0 /\ IncludesAny(url, LoaderImageExtensions)
    THEN Outcome(0, IF hasOnLoad THEN 1 ELSE 0, "DataTexture 1x1")
    ELSE BaseLoaderLoad(depth - 1, url, hasOnLoad)

PatchedLoaders == {"TextureLoader", "FileLoader", "Loader"}

UrlStem == <<"t", "e", "x">>

\* the urls three.js asks the loaders for: images and the model file
FetchUrls == { UrlStem \o ext : ext \in {ExtJpg, ExtJpeg, ExtPng, ExtWebp, ExtKtx, ExtGlb} }

\* load(url, onLoad, onProgress, onError) called on a loader of three.js
Fetch(loader, url, hasOnLoad) ==
    /\ fetches < MaxFetches
    /\ fetches' = fetches + 1
    /\ LET outcome ==
              CASE loader = "TextureLoader" -> TextureLoaderLoad(patches.three, url, hasOnLoad)
                [] loader = "FileLoader" -> FileLoaderLoad(patches.three, url, hasOnLoad)
                [] loader = "Loader" -> BaseLoaderLoad(patches.parser, url, hasOnLoad)
       IN  fetch' = [loader |-> loader, url |-> url, hasOnLoad |-> hasOnLoad,
                     original |-> outcome.original, onLoad |-> outcome.onLoad,
                     onError |-> outcome.onError, result |-> outcome.result]
    /\ UNCHANGED <<platform, GLTFLoader, autoRotate, patches, mounted, loadVars,
                   gestureVars, renderVars, objects, cameraRef>>

\* another viewer instance is mounted (the home tab and the showcase each
\* render one): its mount effect patches the shared prototypes again
OtherViewerMounted ==
    /\ patches.viewers < MaxViewers
    /\ patches' = MountEffect(patches)
    /\ UNCHANGED <<envVars, mounted, loadVars, gestureVars, renderVars, objects, cameraRef>>

(* ------------------------- render loop and unmount -------------------- *)

\* one requestAnimationFrame callback: render()
RenderFrame ==
    /\ rafPending > 0 /\ frames < MaxFrames
    /\ rafPending' = (rafPending - 1) + 1
    /\ objects' = AutoRotated(objects, bikeModelRef)
    /\ frames' = frames + 1
    /\ drawCalls' = IF cameraRef.set THEN drawCalls + 1 ELSE drawCalls
    /\ UNCHANGED <<envVars, patches, mounted, loadVars, gestureVars, cameraRef>>

\* React unmounts the component; the component registers no cleanup
Unmount ==
    /\ mounted
    /\ mounted' = FALSE
    /\ UNCHANGED <<envVars, patches, loadVars, gestureVars, renderVars, objects, cameraRef>>

(* --------------------------- specification ---------------------------- *)

ThrowPoints == {"none", "beforeAdd", "afterAdd"}

SetupThrowPoints == {"none", "renderer", "lighting", "asset"}

TouchMove ==
    \/ \E touches \in OneTouchFrames, gestureState \in GestureStates :
          OnPanResponderMove(touches, gestureState)
    \/ \E touches \in TwoTouchFrames \cup OtherFrames :
          OnPanResponderMove(touches, Displacement(0, 0))

\* the steps of the two load routines: the routine itself and the completion
\* and failure callbacks of its asynchronous steps
LoadStep ==
    \/ \E setupThrows \in SetupThrowPoints : OnContextCreate(setupThrows)
    \/ \E uri \in AssetUris, setupThrows \in BOOLEAN : ContextAssetLoaded(uri, setupThrows)
    \/ ContextAssetFailed
    \/ \E gltf \in GltfResults, parsePath \in ParsePaths(platform), throwAt \in ThrowPoints :
          ContextLoaderLoaded(gltf, parsePath, throwAt)
    \/ ContextLoaderError
    \/ \E requiredAsset \in AssetForms, uri \in AssetUris,
          fromModuleThrows \in BOOLEAN, setupThrows \in BOOLEAN :
          LoadMotorcycleModel(requiredAsset, uri, fromModuleThrows, setupThrows)
    \/ \E uri \in AssetUris, setupThrows \in BOOLEAN : AssetDownloaded(uri, setupThrows)
    \/ AssetDownloadFailed
    \/ \E gltf \in GltfResults, parsePath \in ParsePaths(platform), throwAt \in ThrowPoints :
          LoaderLoaded(gltf, parsePath, throwAt)
    \/ LoaderError

Next ==
    \/ OnPanResponderGrant
    \/ TouchMove
    \/ OnPanResponderRelease
    \/ LoadStep
    \/ RenderFrame
    \/ Unmount

Spec == Init /\ [][Next]_vars

\* a touch-move event with malformed data
MalformedMove ==
    \/ \E touches \in MalformedTwoTouchFrames :
          OnPanResponderMove(touches, Displacement(0, 0))
    \/ \E touches \in OneTouchFrames :
          OnPanResponderMove(touches, MissingDisplacement)

NextMalformed == Next \/ MalformedMove

\* the component when the touch source may also deliver malformed frames
MalformedSpec == Init /\ [][NextMalformed]_vars

\* the loads together with the fetches three.js issues through the patched
\* prototypes and the mounting of further viewers
NextPatched ==
    \/ LoadStep
    \/ OtherViewerMounted
    \/ \E loader \in PatchedLoaders, url \in FetchUrls, hasOnLoad \in BOOLEAN :
          Fetch(loader, url, hasOnLoad)

PatchSpec == Init /\ [][NextPatched]_vars

\* every asynchronous step of a load (asset download, loader completion or
\* error callback) eventually completes
FairSpec == Spec /\ WF_vars(LoadStep)

(* ------------------------------- claims ------------------------------- *)

Range(seq) == { seq[i] : i \in 1..Len(seq) }

\* C1: after any sequence of touch events the zoom factor is a number in
\* [0.5, 12], also when the two touch points of a frame coincide.
\* (Violated: a first two-touch frame at distance 0 stores initialDistance 0,
\* and 0 / 0 is NaN, which Math.min and Math.max pass through.)
C1_ZoomInRange ==
    /\ IsNum(zoomRef)
    /\ Leq(ZoomMin, zoomRef)
    /\ Leq(zoomRef, ZoomMax)

InPitchRange(x) == IsNum(x) /\ Leq(Neg(PitchLimit), x) /\ Leq(x, PitchLimit)

\* C2: in every reachable state the session pitch and the pitch of the active
\* model lie in [-PI/3, PI/3].
C2_PitchInRange ==
    /\ InPitchRange(rotationRef.x)
    /\ bikeModelRef # "null" => InPitchRange(objects[bikeModelRef].rotation.x)

\* C2 witness: a one-touch move with a very large vertical displacement has
\* driven the session pitch and the model's pitch to the lower limit
C2_Witness ==
    /\ bikeModelRef # "null"
    /\ gestureMoves > 0
    /\ velocityRef.x = Mul(Rat(-20000, 1), verticalSensitivity)
    /\ rotationRef.x = Neg(PitchLimit)
    /\ objects[bikeModelRef].rotation.x = Neg(PitchLimit)

\* the yaw a drag of dx = 100 adds: 100 * 0.0004
DragYaw == Mul(Rat(100, 1), sensitivity)

\* C3: a one-touch move reporting (dx = 100, dy = 0), in a gesture that began
\* on the model that is still active, leaves the model at the yaw it had at
\* gesture start plus 100 * 0.0004 and at the pitch it had at gesture start.
\* (Violated: every move event adds the cumulative displacement to the
\* session rotation again.)
C3_DragYawExact ==
    [][ ( /\ gestureMoves' = gestureMoves + 1
          /\ velocityRef' = Rot(Zero, DragYaw)
          /\ grantRef = bikeModelRef )
        => objects'[bikeModelRef].rotation = Rot(grantRot.x, Add(grantRot.y, DragYaw)) ]_vars

\* the kinds of failure of a load attempt
LoadFailures ==
    {"loaderUnavailable", "resolution", "loaderSetup", "loaderError", "noScene", "processing"}

\* a load routine has handled a failed load attempt
LoadFailureHandled == pc \in {"done", "setupFailed"} /\ failure \in LoadFailures

\* C4: once a failed load attempt has been handled, a group with at least 4
\* child meshes is in the scene and is the active model, and loading is false.
\* (Violated: when Asset.fromModule throws in onContextCreate the outer catch
\* builds no fallback; loadMotorcycleModel answers an unavailable loader or a
\* failed resolution with a one-box group and never calls setLoading(false).)
C4_FailureShowsFallback ==
    LoadFailureHandled =>
        /\ bikeModelRef \in Range(scene)
        /\ bikeModelRef # "model"
        /\ objects[bikeModelRef].children >= FallbackChildren
        /\ loading = FALSE

\* C5: once a failure to resolve the bundled asset reference has been
\* handled, the error banner is shown, loading is false and a stand-in group
\* is in the scene.
\* (Violated: when Asset.fromModule throws in onContextCreate the outer catch
\* builds no stand-in; loadMotorcycleModel sets neither error nor loading.)
C5_ResolutionFailureVisible ==
    (failure = "resolution" /\ pc \in {"done", "setupFailed"}) =>
        /\ error # "null"
        /\ loading = FALSE
        /\ \E g \in Range(scene) : g # "model" /\ objects[g].children > 0

\* C6: once a load routine has started, and provided every asynchronous step
\* of the load eventually completes, loading eventually becomes false.
\* (Violated: the early returns of loadMotorcycleModel for an unavailable
\* loader and for a failed resolution never call setLoading(false).)
C6_LoadingEnds == (pc # "mounted") ~> (loading = FALSE)

\* C7: after the component is unmounted no render() runs.
\* (Violated: render() reschedules itself unconditionally and nothing cancels
\* the pending animation frame.)
C7_NoFrameAfterUnmount == [][ ~mounted => frames' = frames ]_vars

\* C8: after the component is unmounted, the completion and failure
\* callbacks of the load change neither loading, error, modelLoaded, the
\* scene nor the active model, and do not start the render loop.
\* (Violated: no callback checks whether the component is still mounted.)
C8_LateCallbackIsNoOp ==
    [][ ~mounted => UNCHANGED <<loading, error, modelLoaded, scene, bikeModelRef,
                                rafPending>> ]_vars

\* C9: every URI the loader is invoked with is a non-empty string.
\* (Violated: onContextCreate passes localUri.uri to loader.load unchecked.)
C9_LoaderUriNonEmpty == \A i \in 1..Len(loaderCalls) : loaderCalls[i] # ""

\* a load has completed successfully
LoadSucceeded == pc = "done" /\ failure = "none" /\ bikeModelRef = "model"

\* C10: after a successful load every material of every mesh of the loaded
\* scene graph has all six texture slots null.
\* (Violated: on web no routine clears the slots, and on the other platforms
\* the retry path of the parse override hands onContextCreate an unprocessed
\* graph.)
C10_TexturesCleared ==
    LoadSucceeded =>
        \A i \in 1..Len(meshes) : \A j \in 1..Len(meshes[i].material) :
            meshes[i].material[j].maps = {}

\* the nine categories of the material classifier
Categories ==
    {"BodyPaint", "Chrome", "Rubber", "Glass", "Light", "Seat", "AccentDetail",
     "CarbonFiber", "Default"}

\* the order in which the categories are tried
CategoryOrder ==
    <<"BodyPaint", "Chrome", "Rubber", "Glass", "Light", "Seat", "AccentDetail",
      "CarbonFiber">>

\* a keyword of the category matches the material name or the mesh name
KeywordMatch(category, materialName, meshName) ==
    CASE category = "BodyPaint" ->
             \/ IncludesAny(materialName, BodyPaintMaterialKeywords)
             \/ IncludesAny(meshName, BodyPaintMeshKeywords)
      [] category = "Chrome" ->
             \/ IncludesAny(materialName, ChromeMaterialKeywords)
             \/ IncludesAny(meshName, ChromeMeshKeywords)
      [] category = "Rubber" ->
             \/ IncludesAny(materialName, RubberMaterialKeywords)
             \/ IncludesAny(meshName, RubberMeshKeywords)
      [] category = "Glass" ->
             \/ IncludesAny(materialName, GlassMaterialKeywords)
             \/ IncludesAny(meshName, GlassMeshKeywords)
      [] category = "Light" ->
             \/ IncludesAny(materialName, LightMaterialKeywords)
             \/ IncludesAny(meshName, LightMeshKeywords)
      [] category = "Seat" ->
             \/ IncludesAny(materialName, SeatMaterialKeywords)
             \/ IncludesAny(meshName, SeatMeshKeywords)
      [] category = "AccentDetail" ->
             \/ IncludesAny(materialName, AccentDetailMaterialKeywords)
             \/ IncludesAny(meshName, AccentDetailMeshKeywords)
      [] category = "CarbonFiber" ->
             \/ IncludesAny(materialName, CarbonFiberMaterialKeywords)
             \/ IncludesAny(meshName, CarbonFiberMeshKeywords)

\* no keyword of any category matches
NoKeyword(materialName, meshName) ==
    \A k \in 1..Len(CategoryOrder) : ~KeywordMatch(CategoryOrder[k], materialName, meshName)

\* the success callback of loadMotorcycleModel has run its classifier over
\* the scene graph
ClassifierRan ==
    \E i \in 1..Len(meshes) :
        Len(meshes[i].material) > 0 /\ meshes[i].material[1].category # "unprocessed"

\* the meshes the classifier gave a category (its catch block did not run)
ClassifiedMeshes ==
    { i \in 1..Len(meshes) :
        Len(meshes[i].material) = 1 /\ meshes[i].material[1].category # "gray" }


\* C11: every classified mesh has one of the nine categories; material
\* "Body_Paint_01" on mesh "chassis" is BodyPaint, a mesh "Front_Tire" whose
\* material name matches no keyword is Rubber, a mesh without keyword and with
\* 8000 vertices is BodyPaint, one with 200 vertices is Default.
\* (Violated: a "Front_Tire" mesh with more than 5000 vertices is BodyPaint,
\* because the vertex test sits in the first branch of the chain.)
C11_ClassifierExamples ==
    ClassifierRan =>
        \A i \in ClassifiedMeshes :
            LET category == meshes[i].material[1].category
                materialName == ToLowerCase(meshes[i].material[1].name)
                meshName == ToLowerCase(meshes[i].name)
            IN  /\ category \in Categories
                /\ (materialName = ToLowerCase(NameBodyPaint01) /\ meshName = NameChassis)
                       => category = "BodyPaint"
                /\ (meshName = ToLowerCase(NameFrontTire) /\ NoKeyword(materialName, << >>))
                       => category = "Rubber"
                /\ (NoKeyword(materialName, meshName) /\ meshes[i].vertexCount = 8000)
                       => category = "BodyPaint"
                /\ (NoKeyword(materialName, meshName) /\ meshes[i].vertexCount = 200)
                       => category = "Default"

\* the category the documented order gives: the first category with a
\* matching keyword, and the vertex count only when no keyword matches
FirstKeywordCategory(materialName, meshName, vertexCount) ==
    IF NoKeyword(materialName, meshName)
    THEN IF vertexCount > VertexThreshold THEN "BodyPaint" ELSE "Default"
    ELSE LET first == CHOOSE k \in 1..Len(CategoryOrder) :
                          /\ KeywordMatch(CategoryOrder[k], materialName, meshName)
                          /\ \A j \in 1..(k - 1) :
                                 ~KeywordMatch(CategoryOrder[j], materialName, meshName)
         IN  CategoryOrder[first]

\* C12: every classified mesh has the first category, in the fixed order,
\* one of whose keywords matches; the vertex count decides only when no
\* keyword of any category matches.
\* (Violated: the test position.count > 5000 is a disjunct of the BodyPaint
\* branch, so it is consulted before the keywords of the later categories.)
C12_FirstKeywordWins ==
    ClassifierRan =>
        \A i \in ClassifiedMeshes :
            meshes[i].material[1].category =
                FirstKeywordCategory(ToLowerCase(meshes[i].material[1].name),
                                     ToLowerCase(meshes[i].name), meshes[i].vertexCount)

\* the meshes of the scene graph the parser produces
ParsedMeshes == (CHOOSE gltf \in GltfResults : gltf.hasScene).meshes

\* processing the mesh throws inside the try block: its material is an array
\* (no clone method), or the branch it takes calls emissive.setHex on a
\* material without emissive component
ProcessingThrows(child) ==
    /\ Len(child.material) > 0
    /\ \/ child.isArray
       \/ /\ ~child.material[1].hasEmissive
          /\ Classify(ToLowerCase(child.material[1].name), ToLowerCase(child.name),
                      child.vertexCount) \in EmissiveCategories

\* C13: after the classifier pass of loadMotorcycleModel, a mesh whose
\* processing threw carries the neutral-gray material (color 0x7d7d7d,
\* metalness 0.5, roughness 0.4), and every other mesh with a material carries
\* its own material with the values of the branch its names and vertex count
\* select, exactly as without any exception.
C13_ThrowingMeshAlone ==
    ClassifierRan =>
        /\ Len(meshes) = Len(ParsedMeshes)
        /\ \A i \in 1..Len(meshes) :
              LET child == ParsedMeshes[i]
              IN  IF ProcessingThrows(child)
                  THEN /\ Len(meshes[i].material) = 1
                       /\ meshes[i].material[1].color = "0x7d7d7d"
                       /\ meshes[i].material[1].metalness = Rat(5, 10)
                       /\ meshes[i].material[1].roughness = Rat(4, 10)
                       /\ meshes[i].material[1].name # child.material[1].name
                  ELSE IF Len(child.material) = 0
                  THEN meshes[i] = child
                  ELSE LET own == [child.material[1] EXCEPT
                                      !.maps = IF platform = "web" THEN @ ELSE {}]
                           category == Classify(ToLowerCase(own.name),
                                                ToLowerCase(child.name), child.vertexCount)
                       IN  /\ meshes[i].material = <<ApplyCategory(own, category)>>
                           /\ meshes[i].material[1].category \in Categories

\* C13 witness: a load by loadMotorcycleModel ended Loaded although the
\* processing of two meshes threw; the other meshes were classified
C13_Witness ==
    /\ ClassifierRan
    /\ pc = "done" /\ failure = "none" /\ modelLoaded /\ ~loading /\ error = "null"
    /\ bikeModelRef = "model"
    /\ Cardinality({ i \in 1..Len(meshes) : meshes[i].material = <<GrayMaterial>> }) = 2
    /\ \E i \in ClassifiedMeshes : meshes[i].material[1].category = "Rubber"
    /\ \E i \in ClassifiedMeshes : meshes[i].material[1].category = "Default"

\* C14: a touch-move event with malformed data leaves the zoom factor, the
\* pinch reference distance and recorded zoom, the camera, the session
\* rotation and the model rotation as they were.
\* (Violated: the handler validates nothing; undefined coordinates make the
\* distance NaN and an undefined displacement makes the deltas NaN, and the
\* NaN is stored in the zoom factor, the camera or the rotation.)
C14_MalformedFrameSkipped ==
    [][ MalformedMove =>
            UNCHANGED <<zoomRef, pinchDataRef, cameraRef, rotationRef, objects>> ]_vars

\* C15: once the construction of the renderer, the scene, the camera or the
\* lighting has thrown in onContextCreate, the error banner is shown, loading
\* is false, no model and no fallback is installed and no render() has run
\* or is scheduled.
C15_RenderSetupFailure ==
    failure = "renderSetup" =>
        /\ error # "null"
        /\ loading = FALSE
        /\ modelLoaded = FALSE
        /\ bikeModelRef = "null"
        /\ scene = << >>
        /\ \A g \in Groups : objects[g] = NoObject
        /\ rafPending = 0
        /\ frames = 0
        /\ drawCalls = 0

\* C15 witness: the lighting set-up threw after the camera was created, and
\* a gesture has been handled since
C15_Witness ==
    /\ failure = "renderSetup"
    /\ pc = "setupFailed"
    /\ cameraRef.set
    /\ error = "GL setup error"
    /\ moves > 0

\* the image extensions
ImageExtensions == {ExtJpg, ExtJpeg, ExtPng, ExtWebp, ExtKtx}

\* the url ends in an image extension
HasImageExtension(url) ==
    \E ext \in ImageExtensions :
        /\ Len(url) >= Len(ext)
        /\ SubSeq(url, Len(url) - Len(ext) + 1, Len(url)) = ext

\* C16: off web, with the patches applied, a load() of a url with an image
\* extension never reaches the unpatched load, its onLoad is scheduled
\* exactly once with a zero-length buffer or the 1x1 placeholder texture, and
\* its onError is never scheduled.
\* (Violated: the FileLoader wrapper does not test for ".ktx", and without
\* GLTFLoader the Loader.prototype.load wrapper is never installed.)
C16_ImageFetchShortCircuited ==
    (platform # "web" /\ patches.three > 0 /\ fetch.loader # "none"
        /\ fetch.hasOnLoad /\ HasImageExtension(fetch.url)) =>
        /\ fetch.original = 0
        /\ fetch.onLoad = 1
        /\ fetch.onError = 0
        /\ fetch.result \in {"ArrayBuffer(0)", "DataTexture 1x1"}

\* C17: in every step, loading once false stays false; a load that has
\* failed (error set) is not and does not become Loaded, and a Loaded one
\* stays Loaded; a load routine that has started is never started again and
\* the loader is invoked at most once; and the fallback model, once the
\* active model, stays the active model.
C17_LoadStateTerminal ==
    [][ /\ (loading = FALSE => loading' = FALSE)
        /\ ((error # "null" /\ ~modelLoaded) => (error' = error /\ ~modelLoaded'))
        /\ (modelLoaded => modelLoaded')
        /\ (pc # "mounted" => pc' # "mounted")
        /\ (pc \in {"done", "setupFailed"} => pc' = pc)
        /\ Len(loaderCalls') <= 1
        /\ (bikeModelRef = "fallback" => bikeModelRef' = "fallback") ]_vars

\* C17 witness: the load failed after the loader had been invoked, the
\* fallback is the active model, and a render frame and a touch move have
\* been handled since
C17_Witness ==
    /\ pc = "done"
    /\ failure = "loaderError"
    /\ Len(loaderCalls) = 1
    /\ error # "null" /\ loading = FALSE /\ ~modelLoaded
    /\ bikeModelRef = "fallback"
    /\ frames >= 2
    /\ gestureMoves > 0

\* C18: a two-touch frame at distance d, handled with the camera present,
\* leaves as pinch reference (d0, z0) the distance and zoom of the gesture's
\* first two-touch frame - the frame's own d and the current zoom when it is
\* the first, the recorded pair unchanged otherwise - and sets the zoom
\* factor to the number min(12, max(0.5, z0 * d0 / d)).
\* (Violated: a first frame with coincident touch points records d0 = 0 and
\* computes 0 / 0, so the zoom factor is NaN; and because 0 is falsy the next
\* frame of the same gesture records a new reference.)
C18_PinchZoomFormula ==
    [][ \A touches \in TwoTouchFrames :
            (cameraRef.set /\ OnPanResponderMove(touches, Displacement(0, 0))) =>
                LET d == TouchDistance(touches[1], touches[2])
                    first == pinchDataRef = EmptyPinch
                    d0 == IF first THEN d ELSE pinchDataRef.initialDistance
                    z0 == IF first THEN zoomRef ELSE pinchDataRef.initialZoom
                IN  /\ pinchDataRef' = [initialDistance |-> d0, initialZoom |-> z0]
                    /\ IsNum(zoomRef')
                    /\ zoomRef' = MathMin(ZoomMax, MathMax(ZoomMin, Mul(z0, Div(d0, d)))) ]_vars

\* C19: a two-touch frame handled with the camera present leaves the
\* camera's x position, y position and look-at target as they were.
\* (Violated: the camera is created at y = 0.4 looking at (1, -0.2, 0); the
\* pinch branch sets y = 0.75 and looks at (1, -0.3, 0), so the first pinch
\* after mount moves the camera vertically and retargets it.)
C19_PinchMovesOnlyZ ==
    [][ \A touches \in TwoTouchFrames :
            (cameraRef.set /\ OnPanResponderMove(touches, Displacement(0, 0))) =>
                /\ cameraRef'.position.x = cameraRef.position.x
                /\ cameraRef'.position.y = cameraRef.position.y
                /\ cameraRef'.target = cameraRef.target ]_vars

\* C20: a one-touch move reporting the cumulative displacement (dx, dy), in
\* a gesture that began on the model that is still active, leaves the model
\* at the yaw snapshotted at gesture start plus 0.0004 * dx and at the pitch
\* snapshotted at gesture start plus 0.0001 * dy, clamped to [-PI/3, PI/3].
\* (Violated: each move event adds the cumulative displacement to the session
\* rotation the previous move event left, so from the second event of a
\* gesture on the displacement is counted more than once.)
C20_RotationFromSnapshot ==
    [][ \A touches \in OneTouchFrames, gestureState \in GestureStates :
            (bikeModelRef # "null" /\ grantRef = bikeModelRef
                /\ OnPanResponderMove(touches, gestureState)) =>
                objects'[bikeModelRef].rotation =
                    Rot(MathMax(Neg(PitchLimit),
                                MathMin(PitchLimit,
                                        Add(grantRot.x, Mul(gestureState.dy, Rat(1, 10000))))),
                        Add(grantRot.y, Mul(gestureState.dx, Rat(4, 10000)))) ]_vars

\* C21: a step that starts a gesture while a model is present sets the
\* session rotation to the rotation the model has at that moment, clears the
\* pinch reference distance and recorded zoom, and leaves the zoom factor and
\* the camera unchanged.
C21_GrantSnapshotsModel ==
    [][ (~responder /\ responder' /\ bikeModelRef # "null") =>
            /\ rotationRef' = objects[bikeModelRef].rotation
            /\ pinchDataRef' = EmptyPinch
            /\ UNCHANGED <<zoomRef, cameraRef, objects>> ]_vars

\* C21 witness: a second gesture has started on the fallback model after a
\* pinch changed the zoom and after auto-rotation advanced the yaw twice; the
\* session rotation holds the advanced yaw and the pinch data is cleared
C21_Witness ==
    /\ responder /\ gestureMoves = 0 /\ moves > 0
    /\ autoRotate /\ bikeModelRef = "fallback" /\ frames = 2
    /\ zoomRef # InitialZoom
    /\ pinchDataRef = EmptyPinch
    /\ rotationRef = objects["fallback"].rotation
    /\ rotationRef.y = Add(Mul(PI, Rat(25, 100)), Mul(Rat(2, 1), AutoRotateStep))

\* C22: a step that ends a gesture clears the pinch reference distance and
\* recorded zoom and leaves model rotations, session rotation, zoom factor,
\* velocity and camera unchanged; and a step taken while no gesture is active
\* changes neither session rotation, zoom factor nor camera, and changes the
\* rotation of an installed model by nothing but the auto-rotation step.
C22_ReleaseOnlyClearsPinch ==
    [][ /\ (responder /\ ~responder') =>
              /\ pinchDataRef' = EmptyPinch
              /\ UNCHANGED <<objects, rotationRef, zoomRef, velocityRef, cameraRef>>
        /\ (~responder /\ ~responder') =>
              /\ UNCHANGED <<rotationRef, zoomRef, pinchDataRef>>
              /\ cameraRef.set => cameraRef' = cameraRef
              /\ (bikeModelRef # "null" /\ bikeModelRef' = bikeModelRef) =>
                    objects'[bikeModelRef].rotation \in
                        { objects[bikeModelRef].rotation,
                          Rot(objects[bikeModelRef].rotation.x,
                              Add(objects[bikeModelRef].rotation.y, AutoRotateStep)) } ]_vars

\* C22 witness: a gesture that rotated the model and then pinched has been
\* released; the velocity of the drag is still recorded, the pinch data is
\* cleared, and a render frame has run
C22_Witness ==
    /\ ~responder /\ gestureMoves = 1 /\ moves = 2
    /\ velocityRef.y # Zero
    /\ zoomRef # InitialZoom
    /\ pinchDataRef = EmptyPinch
    /\ bikeModelRef # "null"
    /\ frames = 2

\* the touch frames and displacements a move event may carry
MoveFrames == OneTouchFrames \cup TwoTouchFrames \cup OtherFrames

MoveDisplacements == GestureStates \cup {Displacement(0, 0)}

\* C23: a move frame with exactly one touch point and a model present leaves
\* zoom factor, pinch transients and camera unchanged; a frame with exactly
\* two touch points leaves session rotation, velocity and every model rotation
\* unchanged; a frame with any other touch count, or a one-touch frame while
\* no model is present, changes none of them.
C23_KeyedByTouchCount ==
    [][ \A touches \in MoveFrames, gestureState \in MoveDisplacements :
          OnPanResponderMove(touches, gestureState) =>
            /\ (Len(touches) = 1 /\ bikeModelRef # "null") =>
                  UNCHANGED <<zoomRef, pinchDataRef, cameraRef>>
            /\ Len(touches) = 2 =>
                  UNCHANGED <<rotationRef, velocityRef, objects>>
            /\ (Len(touches) \notin {1, 2} \/ (Len(touches) = 1 /\ bikeModelRef = "null")) =>
                  UNCHANGED <<rotationRef, velocityRef, objects, zoomRef, pinchDataRef,
                              cameraRef>> ]_vars

\* C23 witness: within one gesture on the loaded model a one-touch frame has
\* rotated the model and a two-touch frame has then changed the zoom; the
\* rotation is still the one the drag left and the velocity is still recorded
C23_Witness ==
    /\ responder /\ gestureMoves = 1 /\ moves = 2
    /\ bikeModelRef = "model"
    /\ pinchDataRef # EmptyPinch
    /\ zoomRef # InitialZoom
    /\ cameraRef.position = PinchCameraPosition(zoomRef)
    /\ velocityRef.y # Zero
    /\ objects["model"].rotation = rotationRef

\* C24: a render frame advances the yaw of the active model by 0.005 rad if
\* and only if auto-rotate is enabled and a model is present, issues one draw
\* call and leaves exactly one frame request pending again; it changes no
\* pitch, no other object, and neither session rotation, zoom factor, camera
\* nor the load state.
C24_RenderFrameEffect ==
    [][ (frames' = frames + 1 /\ pc' = pc) =>
          /\ objects' = IF autoRotate /\ bikeModelRef # "null"
                        THEN [objects EXCEPT ![bikeModelRef].rotation =
                                 Rot(@.x, Add(@.y, Rat(5, 1000)))]
                        ELSE objects
          /\ drawCalls' = drawCalls + 1
          /\ rafPending' = rafPending
          /\ UNCHANGED <<rotationRef, zoomRef, cameraRef, loading, error, modelLoaded,
                         bikeModelRef, scene>> ]_vars

\* C24 witness: with auto-rotate enabled the frame that ended the load and a
\* later render frame have run on the loaded model, each with its draw call,
\* and the yaw has advanced by one step per frame from the installed
\* orientation while the pitch is the installed one
C24_Witness ==
    /\ autoRotate /\ bikeModelRef = "model" /\ pc = "done"
    /\ frames = MaxFrames /\ drawCalls = MaxFrames /\ rafPending = 1
    /\ objects["model"].rotation.x = Mul(PI, Rat(5, 100))
    /\ objects["model"].rotation.y =
          Add(Mul(PI, Rat(25, 100)), Mul(Rat(MaxFrames, 1), AutoRotateStep))
    /\ rotationRef = Rot(Zero, Zero) /\ zoomRef = InitialZoom

\* every keyword of the category, whichever name the code tests it on
CategoryKeywords(category) ==
    CASE category = "BodyPaint" -> BodyPaintMaterialKeywords \cup BodyPaintMeshKeywords
      [] category = "Chrome" -> ChromeMaterialKeywords \cup ChromeMeshKeywords
      [] category = "Rubber" -> RubberMaterialKeywords \cup RubberMeshKeywords
      [] category = "Glass" -> GlassMaterialKeywords \cup GlassMeshKeywords
      [] category = "Light" -> LightMaterialKeywords \cup LightMeshKeywords
      [] category = "Seat" -> SeatMaterialKeywords \cup SeatMeshKeywords
      [] category = "AccentDetail" ->
             AccentDetailMaterialKeywords \cup AccentDetailMeshKeywords
      [] category = "CarbonFiber" -> CarbonFiberMaterialKeywords \cup CarbonFiberMeshKeywords

\* some keyword of the category occurs in the material name or in the mesh name
EitherNameMatch(category, materialName, meshName) ==
    \/ IncludesAny(materialName, CategoryKeywords(category))
    \/ IncludesAny(meshName, CategoryKeywords(category))

\* C25: a classified mesh with at most 5000 vertices whose lower-cased
\* material name contains a keyword of a category, and neither of whose names
\* contains a keyword of an earlier category, has that category.
\* (Violated: "paint", "silver", "exhaust", "wheel", "lamp", "led", "saddle",
\* "badge" and "fiber" are tested on the mesh name only; material
\* "Exhaust_Pipe" on mesh "Cover" is Default, not Chrome.)
C25_KeywordsOnBothNames ==
    ClassifierRan =>
        \A i \in ClassifiedMeshes :
            LET category == meshes[i].material[1].category
                materialName == ToLowerCase(meshes[i].material[1].name)
                meshName == ToLowerCase(meshes[i].name)
            IN  meshes[i].vertexCount <= VertexThreshold =>
                    \A c \in 1..Len(CategoryOrder) :
                        ( /\ IncludesAny(materialName, CategoryKeywords(CategoryOrder[c]))
                          /\ \A e \in 1..(c - 1) :
                                ~EitherNameMatch(CategoryOrder[e], materialName, meshName) )
                        => category = CategoryOrder[c]

\* C26: once the classifier has run over a loaded scene graph, every mesh of
\* the graph casts and receives shadows.
\* (Violated: the two flags are set at the end of the try block only; a mesh
\* whose processing threw gets the gray material in the catch block and no
\* shadow flags, and a mesh without material is skipped altogether.)
C26_ShadowsOnEveryMesh ==
    ClassifierRan =>
        \A i \in 1..Len(meshes) : meshes[i].castShadow /\ meshes[i].receiveShadow

\* C27: whenever the camera exists, its z position is 2 times the zoom factor.
\* (Violated: onContextCreate puts the camera at z = 5.0 while the zoom factor
\* starts at 2.0; the two agree only after the first pinch frame.)
C27_CameraZFollowsZoom ==
    cameraRef.set => cameraRef.position.z = Mul(Rat(2, 1), zoomRef)

\* C28: a one-touch move that applies a rotation to the active model happens
\* in a gesture at whose start that same model was the active model, so that
\* the session rotation was snapshotted from it.
\* (Violated: a gesture that started before the load completed took no
\* snapshot; its first move after the model or the fallback is installed
\* assigns the stale session rotation plus the drag to the new model.)
C28_SnapshotFromSameModel ==
    [][ gestureMoves' = gestureMoves + 1 => grantRef = bikeModelRef ]_vars

\* C29: immediately after a one-touch move with a model present the rotation
\* of the model equals the session rotation, and no step that runs a render
\* frame changes the session rotation.
C29_MoveOverwritesAutoRotation ==
    [][ /\ gestureMoves' = gestureMoves + 1 =>
              objects'[bikeModelRef].rotation = rotationRef'
        /\ frames' = frames + 1 => rotationRef' = rotationRef ]_vars

\* C29 witness: a gesture started on the fallback model one auto-rotation step
\* after its installation, a second render frame ran during the gesture, and
\* after the second one-touch move the model has the session rotation, whose
\* yaw holds the drag and the one step of the snapshot only
C29_Witness ==
    /\ responder /\ gestureMoves = 2 /\ frames = 2 /\ autoRotate
    /\ bikeModelRef = "fallback" /\ grantRef = "fallback"
    /\ grantRot.y = Add(Mul(PI, Rat(25, 100)), AutoRotateStep)
    /\ objects["fallback"].rotation = rotationRef
    /\ rotationRef.y =
          Add(grantRot.y, Mul(Rat(2, 1), Mul(Rat(100, 1), sensitivity)))

\* C30: the scene holds at most one model group, and the active-model
\* reference is null or names the one group that is in the scene.
\* (Violated: a throw after scene.add(model) reaches the catch block, which
\* adds the fallback without removing the model: the scene holds both.)
C30_OneModelGroup ==
    /\ Len(scene) <= 1
    /\ bikeModelRef = "null" \/ scene = <<bikeModelRef>>

\* the scene holds the group named g
InScene(g) == \E i \in 1..Len(scene) : scene[i] = g

\* C31: no draw call has been issued while the load state is Loading; a
\* render frame has run only if the load attempt has ended, in Loaded with
\* the model in the scene or in Failed with the fallback in the scene; from
\* the first frame on exactly one render callback is pending, and before it
\* none is.
C31_RenderLoopAfterLoad ==
    /\ loading => (drawCalls = 0 /\ frames = 0)
    /\ frames > 0 =>
          /\ pc = "done" /\ ~loading
          /\ \/ modelLoaded /\ error = "null" /\ InScene("model")
             \/ ~modelLoaded /\ error # "null" /\ InScene("fallback")
          /\ rafPending = 1
    /\ frames = 0 => rafPending = 0

\* C31 witness: the loader reported an error, the fallback was installed and
\* the loading state ended, and the render loop has since run its first frame
\* and a later one, each with a draw call, with one callback pending
C31_Witness ==
    /\ failure = "loaderError" /\ ~loading /\ error # "null"
    /\ scene = <<"fallback">>
    /\ frames = 2 /\ drawCalls = 2 /\ rafPending = 1
    /\ ~responder /\ moves = 0

\* how many wrappers are nested on the load method of the loader
WrapperDepth(loader) ==
    CASE loader = "TextureLoader" -> patches.three
      [] loader = "FileLoader" -> patches.three
      [] loader = "Loader" -> patches.parser
      [] OTHER -> 0

\* what the load call does when the patches have been applied once
PatchedOnce(loader, url, hasOnLoad) ==
    CASE loader = "TextureLoader" -> TextureLoaderLoad(1, url, hasOnLoad)
      [] loader = "FileLoader" -> FileLoaderLoad(1, url, hasOnLoad)
      [] loader = "Loader" -> BaseLoaderLoad(1, url, hasOnLoad)

\* C32: off web, a load call made after the patches have been applied more
\* than once does what it does after one application; a url without image
\* extension reaches the unpatched load exactly once, and for a url with an
\* image extension the completion callback is scheduled exactly once.
\* (Violated: the nesting itself changes nothing, but the TextureLoader
\* wrapper never calls the load it replaced, so no url reaches the unpatched
\* load through it; and the FileLoader wrapper passes ".ktx" on, see C16.)
C32_RepeatedPatchesAsOnce ==
    (platform # "web" /\ fetch.loader # "none" /\ WrapperDepth(fetch.loader) >= 2) =>
        /\ [original |-> fetch.original, onLoad |-> fetch.onLoad,
            onError |-> fetch.onError, result |-> fetch.result]
              = PatchedOnce(fetch.loader, fetch.url, fetch.hasOnLoad)
        /\ ~HasImageExtension(fetch.url) => fetch.original = 1
        /\ (HasImageExtension(fetch.url) /\ fetch.hasOnLoad) => fetch.onLoad = 1

====
